---- MODULE Spec2Model ----
(***************************************************************************)
(* The persistence protocol of the geodetic-status application:            *)
(*   - src/src/App.tsx  App(): the in-memory dataset (countries, headers), *)
(*     the startup hydration (fetchData), the localStorage mirror effects, *)
(*     the explicit save (handleSaveAll) and the dataset mutations         *)
(*     (handleSaveCountry, handleDeleteCountry, Save Headers);             *)
(*   - src/server.ts    the remote store: GET/POST /api/data over one file.*)
(*                                                                         *)
(* React state is modelled by value.  `changed` is the set of state slots  *)
(* changed by the last commit whose passive effects (useEffect) have not   *)
(* run yet.  React runs the pending effects of a commit before it handles  *)
(* the next event or renders again, so RunEffects is the only step taken   *)
(* while changed # {}: the server's steps commute with it, and a fetch     *)
(* continuation that slips in before the effects of the hydration commit   *)
(* writes cache slots that those effects overwrite at once.                *)
(* Every HTTP exchange has two steps: the server handling the request (or  *)
(* the network dropping it), and the client continuation after the await.  *)
(***************************************************************************)
EXTENDS Integers, Sequences, FiniteSets, TLC

VARIABLES
    countries,   \* App.tsx:398  useState<CountryData[]>(AFRICA_DATA)
    headers,     \* App.tsx:399  useState<TableHeaders>({...})
    isLoading,   \* App.tsx:407  useState(true)
    changed,     \* state slots changed by a commit whose effects are pending
    lsData,      \* localStorage slot 'geodetic_data'   (null or a string)
    lsHeaders,   \* localStorage slot 'table_headers'   (null or a string)
    dataFile,    \* server.ts:12 the contents of geodetic_data.json
    fd,          \* the position of the async function fetchData (App.tsx:411)
    saves,       \* the calls of handleSaveAll, in the order they were started
    selectedCountry, \* App.tsx:479 useState<CountryData | null>(null)
    validationAlert, \* App.tsx:527 whether alert("ID and country name are required.") was shown
    edits,       \* number of operator events on the dataset so far (bounded)
    loadEdits,   \* history: the mutations made while isLoading was true, last per id
    topology,    \* App.tsx:103 the document served at the world.geojson URL
    geoData,     \* App.tsx:80  useState<any>(null)
    dimensions,  \* App.tsx:81  useState({ width: 0, height: 0 })
    clientSize,  \* App.tsx:142-143 svgRef.current.clientWidth / clientHeight
    topoFetches, \* App.tsx:103 the topology fetches in flight, each with its `data`
    svg,         \* App.tsx:139-265 the elements the render effect left in the <svg>
    topoFailed   \* history: whether a topology fetch has failed so far

\* The state of the AfricaMap component (App.tsx:64-390).
mapVars == <<topology, geoData, dimensions, clientSize, topoFetches, svg, topoFailed>>

\* The state of the persistence protocol that AfricaMap neither reads nor writes.
storeVars == <<headers, isLoading, changed, lsData, lsHeaders, dataFile, fd,
               saves, loadEdits>>

vars == <<countries, headers, isLoading, changed, lsData, lsHeaders,
          dataFile, fd, saves, selectedCountry, validationAlert, edits, loadEdits,
          topology, geoData, dimensions, clientSize, topoFetches, svg, topoFailed>>

(***************************************************************************)
(* Bound of the model: the number of operator events (form submissions,    *)
(* deletions, selections, clicks on "save all") in a session.              *)
(***************************************************************************)
MaxEvents == 3

\* The number of submissions and deletions while the map is followed.
MaxMapEvents == 2

\* The number of operator events while the termination of startup is followed.
MaxLiveEvents == 2

(***************************************************************************)
(* Values.  A JavaScript value that may be null is a set: {} is null and   *)
(* {v} is the value v.                                                     *)
(***************************************************************************)
Null == {}
Some(v) == {v}
Val(o) == CHOOSE v \in o : TRUE

Rec(id, pays, status) == [id |-> id, pays |-> pays, status |-> status]

Statuses == {"COMPLET", "SANS_EPOQUE", "MANQUE_INFO", "CANEVA_LOCAL", "ACTIF"}

HeaderKeys == <<"country", "formerNetwork", "currentNetwork", "itrf", "epoch", "status">>

Hdr(countryLabel) ==
    [country |-> countryLabel, formerNetwork |-> "Former Network",
     currentNetwork |-> "Current Network", itrf |-> "ITRF",
     epoch |-> "Epoch", status |-> "Status"]

\* The seed dataset imported from ./data (App.tsx:30), cut to one record.
AFRICA_DATA == << Rec("SEN", "Senegal", "MANQUE_INFO") >>

\* The initial value of the headers state (App.tsx:399-406).
DefaultHeaders == Hdr("Country")

\* What a previous session may have left in the remote store and in the cache.
RemoteData == << Rec("SEN", "Senegal", "COMPLET"), Rec("MLI", "Mali", "ACTIF") >>
RemoteHeaders == Hdr("Pays")
CachedData == << Rec("MLI", "Mali", "SANS_EPOQUE") >>
CachedHeaders == Hdr("Nation")

\* What the operator may type into the edit forms.
UpsertInputs ==
    { Rec("SEN", "Senegal", "COMPLET"), Rec("MLI", "Mali", "CANEVA_LOCAL"),
      Rec("", "Nowhere", "ACTIF"), Rec("GHA", "", "ACTIF") }
HeaderInputs == { Hdr("State") }

(***************************************************************************)
(* JSON.stringify / JSON.parse on the two shapes the program serialises:   *)
(* an array of records becomes a sequence of <<id, pays, status>> tuples,  *)
(* a header object the tuple of its six labels in key order.               *)
(***************************************************************************)
JSONstringifyCountries(cs) ==
    [i \in 1..Len(cs) |-> <<cs[i].id, cs[i].pays, cs[i].status>>]

JSONparseCountries(t) ==
    [i \in 1..Len(t) |-> Rec(t[i][1], t[i][2], t[i][3])]

JSONstringifyHeaders(h) ==
    [i \in 1..Len(HeaderKeys) |-> h[HeaderKeys[i]]]

\* A parse that loses the label of the status column.
JSONparseHeaders_NoStatus(t) ==
    [k \in {HeaderKeys[i] : i \in 1..Len(HeaderKeys)} \ {"status"} |->
        t[CHOOSE i \in 1..Len(HeaderKeys) : HeaderKeys[i] = k]]

JSONparseHeaders(t) ==
    [k \in {HeaderKeys[i] : i \in 1..Len(HeaderKeys)} |->
        t[CHOOSE i \in 1..Len(HeaderKeys) : HeaderKeys[i] = k]]

\* JSON.stringify({ countries, headers }) where either may be null.
StringifyPayload(c, h) ==
    [countries |-> IF c = Null THEN Null ELSE Some(JSONstringifyCountries(Val(c))),
     headers   |-> IF h = Null THEN Null ELSE Some(JSONstringifyHeaders(Val(h)))]

\* JSON.parse of such a text.
ParsePayload(t) ==
    [countries |-> IF t.countries = Null THEN Null
                   ELSE Some(JSONparseCountries(Val(t.countries))),
     headers   |-> IF t.headers = Null THEN Null
                   ELSE Some(JSONparseHeaders(Val(t.headers)))]

NoData == [countries |-> Null, headers |-> Null]

(***************************************************************************)
(* The remote store (src/server.ts).                                       *)
(***************************************************************************)
\* server.ts:15-20 the file a first start of the server writes.
FreshFile == StringifyPayload(Null, Null)

\* server.ts:15-20 starting the server: the file is written only if it does
\* not exist (disk is null when there is no file, else the file's contents).
StartServer(disk) == IF disk = Null THEN FreshFile ELSE Val(disk)

\* server.ts:25-26 GET /api/data: parse the file and send it as JSON.
GetData(file) == ParsePayload(file)

\* A POST handler that stores the countries only.
PostWrite_CountriesOnly(body) == [countries |-> body.countries, headers |-> Null]

\* server.ts:34-35 POST /api/data: the file becomes { countries, headers } of the body.
PostWrite(body) == [countries |-> body.countries, headers |-> body.headers]

(***************************************************************************)
(* Startup hydration: fetchData (App.tsx:411-438).                         *)
(***************************************************************************)
\* App.tsx:416-417 adopt the remote countries when the response carries some.
AdoptCountries(data, cur) == IF data.countries # Null THEN Val(data.countries) ELSE cur

\* App.tsx:426 adopt the remote headers when the response carries some.
AdoptHeaders(data, cur) == IF data.headers # Null THEN Val(data.headers) ELSE cur

\* A catch branch that does not read the 'geodetic_data' slot.
FallbackCountries_NoRead(slot, cur) == cur

\* App.tsx:431,433 the catch branch: the cached countries if the slot is set.
FallbackCountries(slot, cur) == IF slot # Null THEN JSONparseCountries(Val(slot)) ELSE cur

\* App.tsx:432,434 the catch branch: the cached headers if the slot is set.
FallbackHeaders(slot, cur) == IF slot # Null THEN JSONparseHeaders(Val(slot)) ELSE cur

\* App.tsx:423 the body of the seeding POST; `headers` is the value captured by
\* the effect's closure at the first render, the initial headers.
SeedBody == StringifyPayload(Some(AFRICA_DATA), Some(DefaultHeaders))

NoLoadEdits == [ups |-> {}, rem |-> {}, hdr |-> Null]

\* App.tsx:435-437 finally: the state updates of the continuation are committed
\* together with setIsLoading(false).
Finish(c, h) ==
    /\ countries' = c
    /\ headers' = h
    /\ isLoading' = FALSE
    /\ changed' = changed \cup {"isLoading"}
    /\ fd' = [fd EXCEPT !.pc = "done"]
    /\ UNCHANGED loadEdits

\* server.ts:23-26 the server answers the startup GET with the file's contents.
ServerGet ==
    /\ changed = {}
    /\ fd.pc = "get_sent"
    /\ fd' = [fd EXCEPT !.pc = "get_resp", !.resp = "ok", !.data = GetData(dataFile)]
    /\ UNCHANGED <<countries, headers, isLoading, changed, lsData, lsHeaders,
                   dataFile, saves, selectedCountry, validationAlert, edits, loadEdits>>
    /\ UNCHANGED mapVars

\* server.ts:27-29 reading the file fails: status 500.
ServerGetError ==
    /\ changed = {}
    /\ fd.pc = "get_sent"
    /\ fd' = [fd EXCEPT !.pc = "get_resp", !.resp = "http500"]
    /\ UNCHANGED <<countries, headers, isLoading, changed, lsData, lsHeaders,
                   dataFile, saves, selectedCountry, validationAlert, edits, loadEdits>>
    /\ UNCHANGED mapVars

\* App.tsx:413 the server cannot be reached: fetch rejects.
GetRejected ==
    /\ changed = {}
    /\ fd.pc = "get_sent"
    /\ fd' = [fd EXCEPT !.pc = "get_resp", !.resp = "rejected"]
    /\ UNCHANGED <<countries, headers, isLoading, changed, lsData, lsHeaders,
                   dataFile, saves, selectedCountry, validationAlert, edits, loadEdits>>
    /\ UNCHANGED mapVars

\* App.tsx:414-417,426,436 response.ok and data.countries is set.
FetchDataAdopt ==
    /\ changed = {}
    /\ fd.pc = "get_resp" /\ fd.resp = "ok" /\ fd.data.countries # Null
    /\ Finish(AdoptCountries(fd.data, countries), AdoptHeaders(fd.data, headers))
    /\ UNCHANGED <<lsData, lsHeaders, dataFile, saves, selectedCountry,
                   validationAlert, edits>>
    /\ UNCHANGED mapVars

\* App.tsx:418-424 response.ok and data.countries is null: send the seeding POST.
FetchDataSeed ==
    /\ changed = {}
    /\ fd.pc = "get_resp" /\ fd.resp = "ok" /\ fd.data.countries = Null
    /\ fd' = [fd EXCEPT !.pc = "seed_sent"]
    /\ UNCHANGED <<countries, headers, isLoading, changed, lsData, lsHeaders,
                   dataFile, saves, selectedCountry, validationAlert, edits, loadEdits>>
    /\ UNCHANGED mapVars

\* App.tsx:414,427,436 the response is not ok: nothing but finally runs.
FetchDataNotOk ==
    /\ changed = {}
    /\ fd.pc = "get_resp" /\ fd.resp = "http500"
    /\ Finish(countries, headers)
    /\ UNCHANGED <<lsData, lsHeaders, dataFile, saves, selectedCountry,
                   validationAlert, edits>>
    /\ UNCHANGED mapVars

\* A fetchData whose seeding POST is awaited outside the try block: its
\* rejection reaches neither catch nor finally.
FetchDataCatch_GetOnly ==
    /\ changed = {}
    /\ fd.pc = "get_resp" /\ fd.resp = "rejected"
    /\ Finish(FallbackCountries(lsData, countries), FallbackHeaders(lsHeaders, headers))
    /\ UNCHANGED <<lsData, lsHeaders, dataFile, saves, selectedCountry,
                   validationAlert, edits>>
    /\ UNCHANGED mapVars

\* App.tsx:428-437 an await threw (the GET, or the seeding POST): the catch branch.
FetchDataCatch ==
    /\ changed = {}
    /\ \/ fd.pc = "get_resp" /\ fd.resp = "rejected"
       \/ fd.pc = "seed_resp" /\ fd.seed = "rejected"
    /\ Finish(FallbackCountries(lsData, countries), FallbackHeaders(lsHeaders, headers))
    /\ UNCHANGED <<lsData, lsHeaders, dataFile, saves, selectedCountry,
                   validationAlert, edits>>
    /\ UNCHANGED mapVars

\* server.ts:32-36 the server handles the seeding POST.
ServerSeedPost ==
    /\ changed = {}
    /\ fd.pc = "seed_sent"
    /\ dataFile' = PostWrite(SeedBody)
    /\ fd' = [fd EXCEPT !.pc = "seed_resp", !.seed = "ok"]
    /\ UNCHANGED <<countries, headers, isLoading, changed, lsData, lsHeaders,
                   saves, selectedCountry, validationAlert, edits, loadEdits>>
    /\ UNCHANGED mapVars

\* server.ts:37-39 writing the file fails (status 500), or the request never
\* arrives (fetch rejects): the file is as it was.
ServerSeedFail ==
    /\ changed = {}
    /\ fd.pc = "seed_sent"
    /\ \E r \in {"http500", "rejected"} :
          fd' = [fd EXCEPT !.pc = "seed_resp", !.seed = r]
    /\ UNCHANGED <<countries, headers, isLoading, changed, lsData, lsHeaders,
                   dataFile, saves, selectedCountry, validationAlert, edits, loadEdits>>
    /\ UNCHANGED mapVars

\* App.tsx:420-426,436 the seeding POST was answered (its status is not read).
FetchDataSeeded ==
    /\ changed = {}
    /\ fd.pc = "seed_resp" /\ fd.seed \in {"ok", "http500"}
    /\ Finish(countries, AdoptHeaders(fd.data, headers))
    /\ UNCHANGED <<lsData, lsHeaders, dataFile, saves, selectedCountry,
                   validationAlert, edits>>
    /\ UNCHANGED mapVars

(***************************************************************************)
(* The localStorage mirror effects (App.tsx:443-453).                      *)
(***************************************************************************)
\* App.tsx:443-447 runs when countries or isLoading changed.
MirrorData(slot) ==
    IF (changed \cap {"countries", "isLoading"}) # {} /\ ~isLoading
    THEN Some(JSONstringifyCountries(countries)) ELSE slot

\* The headers effect with isLoading left out of its dependency list.
MirrorHeaders_NoLoadingDep(slot) ==
    IF "headers" \in changed /\ ~isLoading
    THEN Some(JSONstringifyHeaders(headers)) ELSE slot

\* App.tsx:449-453 runs when headers or isLoading changed.
MirrorHeaders(slot) ==
    IF (changed \cap {"headers", "isLoading"}) # {} /\ ~isLoading
    THEN Some(JSONstringifyHeaders(headers)) ELSE slot

RunEffects ==
    /\ changed # {}
    /\ lsData' = MirrorData(lsData)
    /\ lsHeaders' = MirrorHeaders(lsHeaders)
    /\ changed' = {}
    /\ UNCHANGED <<countries, headers, isLoading, dataFile, fd, saves,
                   selectedCountry, validationAlert, edits, loadEdits>>
    /\ UNCHANGED mapVars

(***************************************************************************)
(* The explicit save: handleSaveAll (App.tsx:455-477).  A call keeps the   *)
(* countries and headers of the render it was started from (its closure).  *)
(***************************************************************************)
\* App.tsx:460 the body of the POST.
SaveBody(s) == StringifyPayload(Some(s.c), Some(s.h))

\* A handler that reads no status: any answer of the server counts as success.
SaveOutcome_AnyAnswer(resp) == IF resp = "rejected" THEN "failure" ELSE "success"

\* App.tsx:463-476 which alert the call ends with.
SaveOutcome(resp) == IF resp = "ok" THEN "success" ELSE "failure"

\* A handler whose catch branch does not write 'geodetic_data'.
SavedData_OnlyOnSuccess(s, slot) ==
    IF s.resp = "ok" THEN Some(JSONstringifyCountries(s.c)) ELSE slot

\* App.tsx:464 (response ok) and 473 (catch): the write to 'geodetic_data'.
SavedData(s, slot) ==
    IF s.resp = "ok" THEN Some(JSONstringifyCountries(s.c))
    ELSE Some(JSONstringifyCountries(s.c))

\* App.tsx:465 (response ok) and 474 (catch): the write to 'table_headers'.
SavedHeaders(s, slot) ==
    IF s.resp = "ok" THEN Some(JSONstringifyHeaders(s.h))
    ELSE Some(JSONstringifyHeaders(s.h))

\* App.tsx:455-461,686 the operator clicks "save all": the POST is sent.
HandleSaveAll ==
    /\ changed = {}
    /\ edits < MaxEvents
    /\ saves' = Append(saves, [c |-> countries, h |-> headers, stage |-> "sent",
                               resp |-> "none", alert |-> "none"])
    /\ edits' = edits + 1
    /\ UNCHANGED <<countries, headers, isLoading, changed, lsData, lsHeaders,
                   dataFile, fd, selectedCountry, validationAlert, loadEdits>>
    /\ UNCHANGED mapVars

\* server.ts:32-36 the server handles the POST of save i.
ServerPost(i) ==
    /\ changed = {}
    /\ saves[i].stage = "sent"
    /\ dataFile' = PostWrite(SaveBody(saves[i]))
    /\ saves' = [saves EXCEPT ![i].stage = "resp", ![i].resp = "ok"]
    /\ UNCHANGED <<countries, headers, isLoading, changed, lsData, lsHeaders,
                   fd, selectedCountry, validationAlert, edits, loadEdits>>
    /\ UNCHANGED mapVars

\* server.ts:37-39 writing the file fails (status 500), or the request never
\* arrives (fetch rejects): the file is as it was.
ServerPostFail(i) ==
    /\ changed = {}
    /\ saves[i].stage = "sent"
    /\ \E r \in {"http500", "rejected"} :
          saves' = [saves EXCEPT ![i].stage = "resp", ![i].resp = r]
    /\ UNCHANGED <<countries, headers, isLoading, changed, lsData, lsHeaders,
                   dataFile, fd, selectedCountry, validationAlert, edits, loadEdits>>
    /\ UNCHANGED mapVars

\* App.tsx:463-476 the continuation of save i after the await.
SaveAllDone(i) ==
    /\ changed = {}
    /\ saves[i].stage = "resp"
    /\ lsData' = SavedData(saves[i], lsData)
    /\ lsHeaders' = SavedHeaders(saves[i], lsHeaders)
    /\ saves' = [saves EXCEPT ![i].stage = "done",
                              ![i].alert = SaveOutcome(saves[i].resp)]
    /\ UNCHANGED <<countries, headers, isLoading, changed, dataFile, fd,
                   selectedCountry, validationAlert, edits, loadEdits>>
    /\ UNCHANGED mapVars

(***************************************************************************)
(* The dataset mutations and the selection.                                *)
(***************************************************************************)
Range(f) == {f[i] : i \in DOMAIN f}

\* App.tsx:532 findIndex: the first index holding the id, 0 when there is none.
FindIndex(cs, id) ==
    IF \E i \in 1..Len(cs) : cs[i].id = id
    THEN CHOOSE i \in 1..Len(cs) :
            cs[i].id = id /\ \A j \in 1..(i - 1) : cs[j].id # id
    ELSE 0

\* A form handler that drops the entry with the id and pushes the record.
Upsert_MoveToEnd(cs, r) == Append(SelectSeq(cs, LAMBDA c : c.id # r.id), r)

\* A form handler that pushes the record without looking for its id.
Upsert_AlwaysPush(cs, r) == Append(cs, r)

\* App.tsx:531-538 replace the entry found, or append.
Upsert(cs, r) ==
    IF FindIndex(cs, r.id) > 0 THEN [cs EXCEPT ![FindIndex(cs, r.id)] = r]
    ELSE Append(cs, r)

\* A deletion that drops the last record when the id is in the collection.
Remove_DropLast(cs, id) ==
    IF \E i \in 1..Len(cs) : cs[i].id = id THEN SubSeq(cs, 1, Len(cs) - 1) ELSE cs

\* App.tsx:550 countries.filter(c => c.id !== id)
Remove(cs, id) == SelectSeq(cs, LAMBDA c : c.id # id)

\* A check of the form that looks at the id only.
Valid_IdOnly(r) == r.id # ""

\* App.tsx:526 the check of the form: id and name must be set.
Valid(r) == r.id # "" /\ r.pays # ""

\* The mutations applied while loading, kept until the hydration ends.
NoteUpsert(r) ==
    IF isLoading
    THEN [loadEdits EXCEPT !.ups = {x \in @ : x.id # r.id} \cup {r}, !.rem = @ \ {r.id}]
    ELSE loadEdits

NoteRemove(id) ==
    IF isLoading
    THEN [loadEdits EXCEPT !.ups = {x \in @ : x.id # id}, !.rem = @ \cup {id}]
    ELSE loadEdits

NoteHeaders(h) ==
    IF isLoading THEN [loadEdits EXCEPT !.hdr = Some(h)] ELSE loadEdits

\* App.tsx:525-546 handleSaveCountry with the form holding r.
HandleSaveCountry(r) ==
    /\ changed = {}
    /\ edits < MaxEvents
    /\ IF ~Valid(r)
       THEN /\ validationAlert' = TRUE
            /\ edits' = edits + 1
            /\ UNCHANGED <<countries, changed, selectedCountry, loadEdits>>
       ELSE /\ countries' = Upsert(countries, r)
            /\ changed' = {"countries"}
            /\ selectedCountry' =
                  IF selectedCountry # Null /\ Val(selectedCountry).id = r.id
                  THEN Some(r) ELSE selectedCountry
            /\ edits' = edits + 1
            /\ loadEdits' = NoteUpsert(r)
            /\ UNCHANGED validationAlert
    /\ UNCHANGED <<headers, isLoading, lsData, lsHeaders, dataFile, fd, saves>>
    /\ UNCHANGED mapVars

\* App.tsx:548-553,801 handleDeleteCountry(selectedCountry.id), confirmed.
HandleDeleteCountry ==
    /\ changed = {}
    /\ edits < MaxEvents
    /\ selectedCountry # Null
    /\ countries' = Remove(countries, Val(selectedCountry).id)
    /\ changed' = {"countries"}
    /\ selectedCountry' = Null
    /\ edits' = edits + 1
    /\ loadEdits' = NoteRemove(Val(selectedCountry).id)
    /\ UNCHANGED <<headers, isLoading, lsData, lsHeaders, dataFile, fd, saves,
                   validationAlert>>
    /\ UNCHANGED mapVars

\* A "Save Headers" that also writes the snapshot through to the remote store.
SaveHeaders_WriteThrough(h) ==
    /\ changed = {}
    /\ edits < MaxEvents
    /\ headers' = h
    /\ changed' = {"headers"}
    /\ edits' = edits + 1
    /\ loadEdits' = NoteHeaders(h)
    /\ dataFile' = PostWrite(StringifyPayload(Some(countries), Some(h)))
    /\ UNCHANGED <<countries, isLoading, lsData, lsHeaders, fd, saves,
                   selectedCountry, validationAlert>>
    /\ UNCHANGED mapVars

\* App.tsx:1240-1243 "Save Headers" with the form holding h.
SaveHeaders(h) ==
    /\ changed = {}
    /\ edits < MaxEvents
    /\ headers' = h
    /\ changed' = {"headers"}
    /\ edits' = edits + 1
    /\ loadEdits' = NoteHeaders(h)
    /\ UNCHANGED <<countries, isLoading, lsData, lsHeaders, dataFile, fd, saves,
                   selectedCountry, validationAlert>>
    /\ UNCHANGED mapVars

\* App.tsx:724,897 a click on a table row or on the map selects a record;
\* App.tsx:743 the close button of the detail panel clears the selection.
SelectCountry(sel) ==
    /\ changed = {}
    /\ edits < MaxEvents
    /\ selectedCountry # sel
    /\ selectedCountry' = sel
    /\ edits' = edits + 1
    /\ UNCHANGED <<countries, headers, isLoading, changed, lsData, lsHeaders,
                   dataFile, fd, saves, validationAlert, loadEdits>>
    /\ UNCHANGED mapVars

(***************************************************************************)
(* The map: AfricaMap (App.tsx:64-390).  `data` is the countries state of   *)
(* App (App.tsx:722) and selectedCountryId the id of its selection.         *)
(***************************************************************************)
Feature(id, name, geometry) == [id |-> id, name |-> name, geometry |-> geometry]

\* App.tsx:109-122 the override table of the identifiers.
idMap ==
    [k \in {"SDS", "SS", "SZL", "ZAR", "DRC", "KM", "MU", "SC", "CV", "ST", "REU", "MYT"} |->
        CASE k = "SDS" -> "SSD" [] k = "SS"  -> "SSD" [] k = "SZL" -> "SWZ"
          [] k = "ZAR" -> "COD" [] k = "DRC" -> "COD" [] k = "KM"  -> "COM"
          [] k = "MU"  -> "MUS" [] k = "SC"  -> "SYC" [] k = "CV"  -> "CPV"
          [] k = "ST"  -> "STP" [] k = "REU" -> "REU" [] k = "MYT" -> "COM"]

\* idMap is an object literal: a key it does not define itself is looked up in
\* Object.prototype, whose members are functions and objects, never strings.
\* The value found there is written as a text no identifier is equal to.
ObjectPrototype ==
    [k \in {"constructor", "toString", "valueOf", "hasOwnProperty", "__proto__"} |->
        "[object " \o k \o "]"]

\* App.tsx:125,129 idMap[f.id] || f.id
Normalize(id) ==
    IF id \in DOMAIN idMap THEN idMap[id]
    ELSE IF id \in DOMAIN ObjectPrototype THEN ObjectPrototype[id]
    ELSE id

\* App.tsx:107 data.map(d => d.id)
Ids(data) == [i \in 1..Len(data) |-> data[i].id]

\* Array.prototype.includes
Includes(seq, x) == \E i \in 1..Len(seq) : seq[i] = x

\* A filter that keeps the features and leaves their identifiers as served.
RetainedFeatures_NoRewrite(features, africanIsoCodes) ==
    SelectSeq(features, LAMBDA f : Includes(africanIsoCodes, Normalize(f.id)))

\* App.tsx:124-130 the features kept, each with its identifier rewritten.
RetainedFeatures(features, africanIsoCodes) ==
    LET kept == SelectSeq(features, LAMBDA f : Includes(africanIsoCodes, Normalize(f.id)))
    IN  [i \in 1..Len(kept) |-> [kept[i] EXCEPT !.id = Normalize(kept[i].id)]]

\* Array.prototype.find on the records: null, or the first record with the id.
Find(data, id) ==
    IF \E i \in 1..Len(data) : data[i].id = id
    THEN Some(data[FindIndex(data, id)]) ELSE Null

\* App.tsx:169-178, 232-242 the fill of a polygon or of a marker.
Fill(data, id) ==
    LET country == Find(data, id)
    IN  IF country = Null THEN "#f1f5f9"
        ELSE CASE Val(country).status = "COMPLET"      -> "#93c5fd"
               [] Val(country).status = "SANS_EPOQUE"  -> "#fde047"
               [] Val(country).status = "MANQUE_INFO"  -> "#fca5a5"
               [] Val(country).status = "CANEVA_LOCAL" -> "#c084fc"
               [] Val(country).status = "ACTIF"        -> "#cbd5e1"
               [] OTHER                                -> "#f1f5f9"

\* App.tsx:41-49 the entries of ISO3_TO_ISO2 for the codes used below.
ISO3_TO_ISO2 ==
    [k \in {"SEN", "MLI", "MUS", "GHA", "SYC", "COM", "CPV", "STP"} |->
        CASE k = "SEN" -> "sn" [] k = "MLI" -> "ml" [] k = "MUS" -> "mu"
          [] k = "GHA" -> "gh" [] k = "SYC" -> "sc" [] k = "COM" -> "km"
          [] k = "CPV" -> "cv" [] k = "STP" -> "st"]

\* App.tsx:57-61 the flag of a code as text, '' when the code is not in the table.
getEmojiFlag(iso3) ==
    IF iso3 \in DOMAIN ISO3_TO_ISO2 THEN "flag-" \o ISO3_TO_ISO2[iso3] ELSE ""

\* App.tsx:200-204 the text drawn on a feature.
FeatureText(data, d) ==
    LET country == Find(data, d.id)
    IN  IF country = Null THEN d.name
        ELSE getEmojiFlag(Val(country).id) \o " " \o Val(country).pays

\* App.tsx:211-217 the islands drawn as circles.
manualIslands ==
    << [id |-> "MUS", name |-> "Mauritius"], [id |-> "SYC", name |-> "Seychelles"],
       [id |-> "COM", name |-> "Comoros"], [id |-> "CPV", name |-> "Cape Verde"],
       [id |-> "STP", name |-> "Sao Tome and Principe"] >>

Size(w, h) == [width |-> w, height |-> h]

\* App.tsx:724 selectedCountryId={selectedCountry?.id || null}
SelectedId(sel) == IF sel = Null \/ Val(sel).id = "" THEN Null ELSE Some(Val(sel).id)

EmptySvg == [polygons |-> << >>, markers |-> << >>]

\* A render effect whose size guard looks at the width only.
RenderEffect_WidthOnly(prev, gd, selId, data, dims, client) ==
    LET width  == IF dims.width # 0 THEN dims.width ELSE client.width
        height == IF dims.height # 0 THEN dims.height ELSE client.height
    IN  IF gd = Null THEN prev
        ELSE IF width = 0 THEN EmptySvg
        ELSE [polygons |->
                 [i \in 1..Len(Val(gd)) |->
                     [id |-> Val(gd)[i].id, geometry |-> Val(gd)[i].geometry,
                      fill |-> Fill(data, Val(gd)[i].id),
                      selected |-> (selId = Some(Val(gd)[i].id)),
                      title |-> Val(gd)[i].name,
                      text |-> FeatureText(data, Val(gd)[i])]],
              markers |->
                 [k \in 1..Len(manualIslands) |->
                     [id |-> manualIslands[k].id,
                      fill |-> Fill(data, manualIslands[k].id),
                      selected |-> (selId = Some(manualIslands[k].id)),
                      text |-> getEmojiFlag(manualIslands[k].id) \o " " \o manualIslands[k].name]]]

\* App.tsx:136-267 the render effect: what it leaves in the <svg>, given what
\* was there and the values of its dependencies.
RenderEffect(prev, gd, selId, data, dims, client) ==
    LET width  == IF dims.width # 0 THEN dims.width ELSE client.width
        height == IF dims.height # 0 THEN dims.height ELSE client.height
    IN  IF gd = Null THEN prev
        ELSE IF width = 0 \/ height = 0 THEN EmptySvg
        ELSE [polygons |->
                 [i \in 1..Len(Val(gd)) |->
                     [id |-> Val(gd)[i].id, geometry |-> Val(gd)[i].geometry,
                      fill |-> Fill(data, Val(gd)[i].id),
                      selected |-> (selId = Some(Val(gd)[i].id)),
                      title |-> Val(gd)[i].name,
                      text |-> FeatureText(data, Val(gd)[i])]],
              markers |->
                 [k \in 1..Len(manualIslands) |->
                     [id |-> manualIslands[k].id,
                      fill |-> Fill(data, manualIslands[k].id),
                      selected |-> (selId = Some(manualIslands[k].id)),
                      text |-> getEmojiFlag(manualIslands[k].id) \o " " \o manualIslands[k].name]]]

\* App.tsx:306-311 the statuses of the rows of the statistics table.
StatisticsRows == <<"COMPLET", "SANS_EPOQUE", "MANQUE_INFO", "CANEVA_LOCAL">>

\* A toFixed(1) that cuts the value after the first decimal.
ToFixed1_Truncating(n, d) ==
    << ((n * 10) \div d) \div 10, ((n * 10) \div d) % 10 >>

\* Number.prototype.toFixed(1) of n / d: the decimal text with one digit after
\* the point, nearest to the value, the larger one on a tie; written as the
\* pair <<integer part, decimal digit>>.
ToFixed1(n, d) ==
    << ((n * 20 + d) \div (2 * d)) \div 10, ((n * 20 + d) \div (2 * d)) % 10 >>

\* App.tsx:313 data.filter(c => c.status === item.status).length
Count(data, status) == Len(SelectSeq(data, LAMBDA c : c.status = status))

\* App.tsx:314 the percentage: the text of toFixed(1), or the number 0,
\* written <<0>>, when there is no record.
Percentage(count, total) ==
    IF total > 0 THEN ToFixed1(count * 100, total) ELSE <<0>>

\* App.tsx:306-323 the rows of the statistics table.
Statistics(data) ==
    [k \in 1..Len(StatisticsRows) |->
        [status |-> StatisticsRows[k],
         count |-> Count(data, StatisticsRows[k]),
         percentage |-> Percentage(Count(data, StatisticsRows[k]), Len(data))]]

\* The effects of a commit of AfricaMap, run before the next event: the render
\* effect (App.tsx:136-267) with the committed values of its dependencies.
MapRendered(gd, sel, data, dims, client) ==
    svg' = RenderEffect(svg, gd, SelectedId(sel), data, dims, client)

\* App.tsx:103-133 the response of topology fetch i arrives and parses: the
\* handler filters it with the `data` of the render that started the fetch.
TopologyLoaded(i) ==
    /\ geoData' = Some(RetainedFeatures(topology, Ids(topoFetches[i])))
    /\ topoFetches' = [k \in 1..(Len(topoFetches) - 1) |->
                          IF k < i THEN topoFetches[k] ELSE topoFetches[k + 1]]
    /\ MapRendered(geoData', selectedCountry, countries, dimensions, clientSize)
    /\ UNCHANGED <<countries, selectedCountry, validationAlert, edits, topology, topoFailed,
                   dimensions, clientSize>>
    /\ UNCHANGED storeVars

\* App.tsx:103-104 topology fetch i is rejected, or its body is not JSON: the
\* promise chain has no catch, no state is set.
TopologyFailed(i) ==
    /\ topoFailed' = TRUE
    /\ topoFetches' = [k \in 1..(Len(topoFetches) - 1) |->
                          IF k < i THEN topoFetches[k] ELSE topoFetches[k + 1]]
    /\ UNCHANGED <<countries, selectedCountry, validationAlert, edits, topology,
                   geoData, dimensions, clientSize, svg>>
    /\ UNCHANGED storeVars

\* App.tsx:89-96 the ResizeObserver reports the content box d of the container,
\* which the <svg> fills (App.tsx:277).
ResizeObserved(d) ==
    /\ <<d, d>> # <<dimensions, clientSize>>
    /\ dimensions' = d
    /\ clientSize' = d
    /\ MapRendered(geoData, selectedCountry, countries, d, d)
    /\ UNCHANGED <<countries, selectedCountry, validationAlert, edits, topology, topoFailed,
                   geoData, topoFetches>>
    /\ UNCHANGED storeVars

\* App.tsx:525-546 handleSaveCountry with the form holding r, followed on the
\* map: the new `data` starts a topology fetch (App.tsx:102-134) and the render
\* effect runs.
SaveCountryOnMap(r) ==
    /\ edits < MaxMapEvents
    /\ IF ~Valid(r)
       THEN /\ validationAlert' = TRUE
            /\ edits' = edits + 1
            /\ UNCHANGED <<countries, selectedCountry, topoFetches, svg>>
       ELSE /\ countries' = Upsert(countries, r)
            /\ selectedCountry' =
                  IF selectedCountry # Null /\ Val(selectedCountry).id = r.id
                  THEN Some(r) ELSE selectedCountry
            /\ edits' = edits + 1
            /\ topoFetches' = Append(topoFetches, countries')
            /\ MapRendered(geoData, selectedCountry', countries', dimensions, clientSize)
            /\ UNCHANGED validationAlert
    /\ UNCHANGED <<topology, topoFailed, geoData, dimensions, clientSize>>
    /\ UNCHANGED storeVars

\* App.tsx:548-553,801 handleDeleteCountry(selectedCountry.id), confirmed,
\* followed on the map in the same way.
DeleteCountryOnMap ==
    /\ edits < MaxMapEvents
    /\ selectedCountry # Null
    /\ countries' = Remove(countries, Val(selectedCountry).id)
    /\ selectedCountry' = Null
    /\ edits' = edits + 1
    /\ topoFetches' = Append(topoFetches, countries')
    /\ MapRendered(geoData, selectedCountry', countries', dimensions, clientSize)
    /\ UNCHANGED <<validationAlert, topology, topoFailed, geoData, dimensions, clientSize>>
    /\ UNCHANGED storeVars

\* App.tsx:180-183 a click on polygon k of the <svg>.
ClickFeature(k) ==
    /\ selectedCountry' = Find(countries, svg.polygons[k].id)
    /\ MapRendered(geoData, selectedCountry', countries, dimensions, clientSize)
    /\ UNCHANGED <<countries, validationAlert, edits, topology, topoFailed, geoData,
                   dimensions, clientSize, topoFetches>>
    /\ UNCHANGED storeVars

\* A marker click that takes the record at the marker's position in the
\* list (data[i] || null) instead of the record with the marker's id.
ClickMarker_ByPosition(k) ==
    /\ selectedCountry' = IF k <= Len(countries) THEN Some(countries[k]) ELSE Null
    /\ MapRendered(geoData, selectedCountry', countries, dimensions, clientSize)
    /\ UNCHANGED <<countries, validationAlert, edits, topology, topoFailed, geoData,
                   dimensions, clientSize, topoFetches>>
    /\ UNCHANGED storeVars

\* App.tsx:224-227 a click on island marker k of the <svg>.
ClickMarker(k) ==
    /\ selectedCountry' = Find(countries, svg.markers[k].id)
    /\ MapRendered(geoData, selectedCountry', countries, dimensions, clientSize)
    /\ UNCHANGED <<countries, validationAlert, edits, topology, topoFailed, geoData,
                   dimensions, clientSize, topoFetches>>
    /\ UNCHANGED storeVars

\* A selection that the render effect does not follow (selectedCountryId left
\* out of its dependencies): the <svg> stays as it was.
SelectRow_NoRender(sel) ==
    /\ selectedCountry # sel
    /\ selectedCountry' = sel
    /\ UNCHANGED <<countries, validationAlert, edits, topology, topoFailed, geoData,
                   dimensions, clientSize, topoFetches, svg>>
    /\ UNCHANGED storeVars

\* App.tsx:897 a click on a row of the table (sel is its record), App.tsx:743
\* the close button of the detail panel (sel is null).
SelectRow(sel) ==
    /\ selectedCountry # sel
    /\ selectedCountry' = sel
    /\ MapRendered(geoData, sel, countries, dimensions, clientSize)
    /\ UNCHANGED <<countries, validationAlert, edits, topology, topoFailed, geoData,
                   dimensions, clientSize, topoFetches>>
    /\ UNCHANGED storeVars

(***************************************************************************)
(* The specification.                                                      *)
(***************************************************************************)
\* The disk as the server may find it when it starts: no file, or a file of
\* which each of the two parts is null (server.ts:17) or a value of its type
\* (CountryData[] with distinct ids, TableHeaders with its six labels) as an
\* earlier session wrote it; the local cache as an earlier session may have
\* left it (the mirror effects write both slots together when loading ends).
DiskInit ==
    { Null,
      Some(StringifyPayload(Null, Null)),
      Some(StringifyPayload(Null, Some(RemoteHeaders))),
      Some(StringifyPayload(Some(RemoteData), Some(RemoteHeaders))) }

\* The file once the server has started on such a disk.
FileInit == { StartServer(disk) : disk \in DiskInit }

CacheInit ==
    { <<Null, Null>>,
      <<Some(JSONstringifyCountries(CachedData)), Some(JSONstringifyHeaders(CachedHeaders))>> }

Init ==
    /\ countries = AFRICA_DATA
    /\ headers = DefaultHeaders
    /\ isLoading = TRUE
    /\ changed = {}
    /\ \E cache \in CacheInit : lsData = cache[1] /\ lsHeaders = cache[2]
    /\ dataFile \in FileInit
    /\ fd = [pc |-> "get_sent", resp |-> "none", data |-> NoData, seed |-> "none"]
    /\ saves = << >>
    /\ selectedCountry = Null
    /\ validationAlert = FALSE
    /\ edits = 0
    /\ loadEdits = NoLoadEdits
    /\ topology = << >>
    /\ geoData = Null
    /\ dimensions = Size(0, 0)
    /\ clientSize = Size(0, 0)
    /\ topoFetches = << >>
    /\ svg = EmptySvg
    /\ topoFailed = FALSE

Next ==
    \/ ServerGet
    \/ ServerGetError
    \/ GetRejected
    \/ FetchDataAdopt
    \/ FetchDataSeed
    \/ FetchDataNotOk
    \/ FetchDataCatch
    \/ ServerSeedPost
    \/ ServerSeedFail
    \/ FetchDataSeeded
    \/ RunEffects
    \/ HandleSaveAll
    \/ \E i \in 1..Len(saves) : ServerPost(i)
    \/ \E i \in 1..Len(saves) : ServerPostFail(i)
    \/ \E i \in 1..Len(saves) : SaveAllDone(i)
    \/ \E r \in UpsertInputs : HandleSaveCountry(r)
    \/ HandleDeleteCountry
    \/ \E h \in HeaderInputs : SaveHeaders(h)
    \/ \E sel \in {Null} \cup {Some(c) : c \in Range(countries)} : SelectCountry(sel)

\* The persistence protocol; the state of the map stays as constructed.
Spec == Init /\ [][Next]_vars

\* App.tsx:411-439 the steps of fetchData and of the requests it awaits.
FetchDataStep ==
    \/ ServerGet
    \/ ServerGetError
    \/ GetRejected
    \/ FetchDataAdopt
    \/ FetchDataSeed
    \/ FetchDataNotOk
    \/ FetchDataCatch
    \/ ServerSeedPost
    \/ ServerSeedFail
    \/ FetchDataSeeded

\* The persistence protocol with its scheduling: every request of fetchData
\* is settled (answered or rejected), the event loop runs a continuation
\* whose promise has settled, and React runs the pending effects; the operator
\* acts at most MaxLiveEvents times.
NextLive ==
    \/ FetchDataStep
    \/ RunEffects
    \/ \E i \in 1..Len(saves) : ServerPost(i)
    \/ \E i \in 1..Len(saves) : ServerPostFail(i)
    \/ \E i \in 1..Len(saves) : SaveAllDone(i)
    \/ edits < MaxLiveEvents /\ HandleSaveAll
    \/ edits < MaxLiveEvents /\ \E r \in UpsertInputs : HandleSaveCountry(r)
    \/ edits < MaxLiveEvents /\ HandleDeleteCountry
    \/ edits < MaxLiveEvents /\ \E h \in HeaderInputs : SaveHeaders(h)
    \/ edits < MaxLiveEvents /\
          \E sel \in {Null} \cup {Some(c) : c \in Range(countries)} : SelectCountry(sel)

SpecLive == Init /\ [][NextLive]_vars /\ WF_vars(FetchDataStep) /\ WF_vars(RunEffects)

(***************************************************************************)
(* The map and the statistics, over the records App hands them: the        *)
(* persistence protocol is left where it starts.                           *)
(***************************************************************************)
\* The records the map may be mounted with.
MapData ==
    { << >>,
      << Rec("SEN", "Senegal", "MANQUE_INFO"), Rec("MLI", "Mali", "COMPLET"),
         Rec("MUS", "Mauritius", "ACTIF") >> }

\* What the topology URL may serve.
Topologies ==
    { << >>,
      << Feature("SEN", "Senegal", "g1"), Feature("FRA", "France", "g2"),
         Feature("MLI", "Mali", "g3") >>,
      << Feature("MU", "Mauritius", "g4"), Feature("constructor", "Nowhere", "g5"),
         Feature("SEN", "Senegal", "g1") >> }

\* The sizes of the layout.
Sizes == { Size(0, 0), Size(800, 0), Size(800, 600) }

InitMap ==
    /\ countries \in MapData
    /\ selectedCountry = Null
    /\ validationAlert = FALSE
    /\ edits = 0
    /\ topology \in Topologies
    /\ geoData = Null
    /\ dimensions = Size(0, 0)
    /\ clientSize \in Sizes
    /\ topoFetches = << countries >>
    /\ svg = EmptySvg
    /\ topoFailed = FALSE
    /\ headers = DefaultHeaders
    /\ isLoading = TRUE
    /\ changed = {}
    /\ lsData = Null
    /\ lsHeaders = Null
    /\ dataFile = FreshFile
    /\ fd = [pc |-> "get_sent", resp |-> "none", data |-> NoData, seed |-> "none"]
    /\ saves = << >>
    /\ loadEdits = NoLoadEdits

NextMap ==
    \/ \E i \in 1..Len(topoFetches) : TopologyLoaded(i)
    \/ \E i \in 1..Len(topoFetches) : TopologyFailed(i)
    \/ \E d \in Sizes : ResizeObserved(d)
    \/ \E r \in UpsertInputs : SaveCountryOnMap(r)
    \/ DeleteCountryOnMap
    \/ \E k \in 1..Len(svg.polygons) : ClickFeature(k)
    \/ \E k \in 1..Len(svg.markers) : ClickMarker(k)
    \/ \E sel \in {Null} \cup {Some(c) : c \in Range(countries)} : SelectRow(sel)

SpecMap == InitMap /\ [][NextMap]_vars

(***************************************************************************)
(* The claims.  The state right after the hydration's commit, before its   *)
(* effects have run, is the one where "isLoading" \in changed.             *)
(***************************************************************************)
HydrationCommitted == "isLoading" \in changed

Quiescent == fd.pc = "done" /\ changed = {} /\ \A i \in 1..Len(saves) : saves[i].stage = "done"

\* C1: when the startup GET succeeds with non-null countries and headers, the
\* hydration's commit leaves the in-memory countries and headers equal to the
\* remote payload, and the mirror effects that follow it overwrite both cache
\* slots with that payload, whatever the slots held.
C1_RemotePopulatedAdopted ==
    [][ /\ ( /\ isLoading /\ ~isLoading'
             /\ fd.resp = "ok" /\ fd.data.countries # Null /\ fd.data.headers # Null )
           => /\ countries' = Val(fd.data.countries)
              /\ headers' = Val(fd.data.headers)
        /\ ( /\ HydrationCommitted /\ changed' = {}
             /\ fd.resp = "ok" /\ fd.data.countries # Null /\ fd.data.headers # Null )
           => /\ lsData' = Some(JSONstringifyCountries(Val(fd.data.countries)))
              /\ lsHeaders' = Some(JSONstringifyHeaders(Val(fd.data.headers)))
      ]_vars

C1_Witness ==
    /\ ~isLoading /\ changed = {} /\ fd.resp = "ok"
    /\ countries = RemoteData /\ headers = RemoteHeaders
    /\ lsData = Some(JSONstringifyCountries(RemoteData))
    /\ lsHeaders = Some(JSONstringifyHeaders(RemoteHeaders))

\* C2 as stated: when the startup GET is rejected, the hydration's commit leaves
\* the in-memory state equal to the cached payload when the cache is set, and to
\* the built-in defaults when it is not.
C2_UnreachableDefaults ==
    [][ (isLoading /\ ~isLoading' /\ fd.pc = "get_resp" /\ fd.resp = "rejected")
           => /\ countries' = IF lsData # Null THEN JSONparseCountries(Val(lsData))
                              ELSE AFRICA_DATA
              /\ headers' = IF lsHeaders # Null THEN JSONparseHeaders(Val(lsHeaders))
                            ELSE DefaultHeaders
      ]_vars

\* C2 as amended: when the startup GET is rejected, the hydration's commit leaves
\* the in-memory state equal to the cached payload when the cache is set, and as
\* it was (the defaults, unless edited while loading) when it is not.
C2_UnreachableFallback ==
    [][ (isLoading /\ ~isLoading' /\ fd.pc = "get_resp" /\ fd.resp = "rejected")
           => /\ countries' = IF lsData # Null THEN JSONparseCountries(Val(lsData))
                              ELSE countries
              /\ headers' = IF lsHeaders # Null THEN JSONparseHeaders(Val(lsHeaders))
                            ELSE headers
              /\ (lsData = Null /\ lsHeaders = Null /\ loadEdits = NoLoadEdits)
                    => countries' = AFRICA_DATA /\ headers' = DefaultHeaders
      ]_vars

C2_Witness ==
    /\ HydrationCommitted /\ fd.resp = "rejected" /\ fd.seed = "none"
    /\ lsData # Null /\ countries = CachedData /\ headers = CachedHeaders
    /\ loadEdits # NoLoadEdits

\* C3: a non-2xx answer to the startup GET falls back to the cache like a
\* rejected request: with the cache set, the hydration's commit leaves the
\* in-memory state equal to the cached payload, which the cache still holds.
C3_Non2xxFallsBack ==
    (HydrationCommitted /\ fd.resp = "http500" /\ lsData # Null /\ lsHeaders # Null)
        => /\ countries = JSONparseCountries(Val(lsData))
           /\ headers = JSONparseHeaders(Val(lsHeaders))

\* C4: when the startup GET answers with null countries (and null headers, and
\* nothing was edited while loading), a seeding POST carrying the defaults was
\* sent and the hydration's commit leaves the defaults in memory, whatever the
\* cache held and whatever became of the seeding POST.
C4_EmptyRemoteKeepsDefaults ==
    ( /\ HydrationCommitted /\ fd.resp = "ok" /\ fd.data = NoData
      /\ loadEdits = NoLoadEdits )
        => /\ fd.seed # "none"
           /\ countries = AFRICA_DATA
           /\ headers = DefaultHeaders

\* C5: when the POST of an explicit save fails (status 500, or rejected), the
\* call ends with the failure alert and both cache slots hold the countries and
\* headers of the body it sent.
C5_FailedSaveRefreshesCache ==
    [][ \A i \in 1..Len(saves) :
          ( /\ saves[i].stage = "resp" /\ saves[i].resp \in {"http500", "rejected"}
            /\ saves'[i].stage = "done" )
          => /\ saves'[i].alert = "failure"
             /\ lsData' = SaveBody(saves[i]).countries
             /\ lsHeaders' = SaveBody(saves[i]).headers
      ]_vars

C5_Witness ==
    \E i \in 1..Len(saves) :
        /\ saves[i].stage = "done" /\ saves[i].resp = "rejected"
        /\ saves[i].alert = "failure"
        /\ lsData = SaveBody(saves[i]).countries
        /\ lsHeaders = SaveBody(saves[i]).headers
        /\ dataFile # SaveBody(saves[i])

\* C6: once the save started last has ended with success (startup over, no
\* seeding POST involved, nothing edited since that save was started), the cache
\* and the remote store hold the same payload.
C6_CacheMatchesRemoteAfterSave ==
    ( /\ Quiescent /\ fd.seed = "none" /\ saves # << >>
      /\ saves[Len(saves)].resp = "ok"
      /\ countries = saves[Len(saves)].c /\ headers = saves[Len(saves)].h )
        => /\ lsData = dataFile.countries
           /\ lsHeaders = dataFile.headers

\* C7: a save ends with the success alert exactly when its POST was answered
\* with a 2xx status, and with the failure alert in every other case.
C7_SaveOutcomeTruthful ==
    \A i \in 1..Len(saves) :
        /\ saves[i].alert = "success" <=> (saves[i].stage = "done" /\ saves[i].resp = "ok")
        /\ saves[i].alert = "failure" <=> (saves[i].stage = "done" /\ saves[i].resp # "ok")

C7_Witness ==
    \E i, j \in 1..Len(saves) :
        /\ saves[i].stage = "done" /\ saves[i].resp = "ok" /\ saves[i].alert = "success"
        /\ saves[j].stage = "done" /\ saves[j].resp = "http500" /\ saves[j].alert = "failure"

\* C8: after startup, the effects that follow a mutation leave both cache slots
\* equal to the in-memory countries and headers.
C8_MirrorAfterMutation ==
    [][ (~isLoading /\ changed # {} /\ ~HydrationCommitted /\ changed' = {})
           => /\ lsData' = Some(JSONstringifyCountries(countries'))
              /\ lsHeaders' = Some(JSONstringifyHeaders(headers'))
      ]_vars

\* C9: once no operation is pending (startup over, effects run, every save
\* ended), the cache holds the current in-memory snapshot.
C9_LastSnapshotWins ==
    Quiescent
        => /\ lsData = Some(JSONstringifyCountries(countries))
           /\ lsHeaders = Some(JSONstringifyHeaders(headers))

\* C10: the mutations made while the hydration was pending are still in the
\* in-memory dataset when it ends: a record upserted is in the collection, a
\* record removed is not, the headers set are the headers.
C10_LoadingEditsKept ==
    HydrationCommitted
        => /\ \A r \in loadEdits.ups : r \in Range(countries)
           /\ \A id \in loadEdits.rem : \A c \in Range(countries) : c.id # id
           /\ loadEdits.hdr # Null => headers = Val(loadEdits.hdr)

\* C11: once the startup is over, the remote store changes only in the step
\* in which the server handles the POST of an explicit save, and then to that
\* save's body; a step that changes the in-memory countries, the headers, the
\* selection or a cache slot (upsert, remove, set headers, select, the effects
\* after a render) leaves the remote store as it was.
C11_RemoteWrittenOnlyBySave ==
    [][ /\ (fd.pc = "done" /\ dataFile' # dataFile)
            => \E i \in 1..Len(saves) :
                  /\ saves[i].stage = "sent" /\ saves'[i].stage = "resp"
                  /\ dataFile' = PostWrite(SaveBody(saves[i]))
        /\ ( \/ countries' # countries \/ headers' # headers
             \/ selectedCountry' # selectedCountry
             \/ lsData' # lsData \/ lsHeaders' # lsHeaders )
            => dataFile' = dataFile
      ]_vars

\* The remote payload was adopted, the operator then changed the records and
\* the headers without saving, the effects have mirrored them into the cache:
\* the remote store still holds the payload of the earlier session.
C11_Witness ==
    /\ fd.pc = "done" /\ fd.resp = "ok" /\ changed = {}
    /\ loadEdits = NoLoadEdits /\ saves = << >>
    /\ countries # RemoteData /\ headers # RemoteHeaders
    /\ lsData = Some(JSONstringifyCountries(countries))
    /\ dataFile = StringifyPayload(Some(RemoteData), Some(RemoteHeaders))

\* C13: a submission of the edit form whose id or whose name is empty is
\* rejected: the alert is shown, and the in-memory countries, the headers, both
\* cache slots and the remote store are what they were before the submission.
C13_InvalidUpsertRejected ==
    [][ \A r \in UpsertInputs :
           ((r.id = "" \/ r.pays = "") /\ HandleSaveCountry(r))
              => /\ validationAlert'
                 /\ UNCHANGED <<countries, headers, lsData, lsHeaders, dataFile>>
      ]_vars

\* An invalid form was submitted after the remote payload had been adopted and
\* mirrored: the alert was shown and memory, cache and remote store still agree.
C13_Witness ==
    /\ validationAlert
    /\ fd.pc = "done" /\ changed = {}
    /\ countries = RemoteData /\ headers = RemoteHeaders
    /\ lsData = Some(JSONstringifyCountries(RemoteData))
    /\ dataFile = StringifyPayload(Some(RemoteData), Some(RemoteHeaders))

\* C15: in every reachable state no two records of the in-memory countries
\* have the same id and every record's status is one of the five statuses,
\* whatever the startup adopted (remote payload, cached payload or neither)
\* and whatever was upserted and removed.
C15_IdsDistinctStatusEnum ==
    /\ \A i, j \in 1..Len(countries) : i # j => countries[i].id # countries[j].id
    /\ \A i \in 1..Len(countries) : countries[i].status \in Statuses

\* The remote payload (SEN, MLI) was adopted, MLI was then replaced through
\* the form and SEN selected and removed.
C15_Witness ==
    /\ fd.pc = "done" /\ fd.resp = "ok" /\ changed = {}
    /\ loadEdits = NoLoadEdits
    /\ countries = << Rec("MLI", "Mali", "CANEVA_LOCAL") >>

\* C16: in every reachable state the in-memory headers have exactly the six
\* keys country, formerNetwork, currentNetwork, itrf, epoch and status,
\* whatever the startup adopted and whatever header forms were saved.
C16_HeadersComplete ==
    DOMAIN headers = {HeaderKeys[i] : i \in 1..Len(HeaderKeys)}

\* The cached headers were adopted by the catch branch and then replaced by a
\* saved header form.
C16_Witness ==
    /\ fd.pc = "done" /\ fd.resp = "rejected" /\ changed = {}
    /\ loadEdits = NoLoadEdits
    /\ headers \in HeaderInputs
    /\ lsHeaders = Some(JSONstringifyHeaders(headers))
    /\ lsData = Some(JSONstringifyCountries(CachedData))

\* C12: when a form holding a record r with an id and a name is submitted,
\* the collection afterwards has exactly one record with r's id and that
\* record is r; if the collection had a record with that id, r stands in its
\* place and the length is the same, otherwise r is the new last record; every
\* other record is where and what it was.
C12_UpsertReplacesOrAppends ==
    [][ \A r \in UpsertInputs :
           (r.id # "" /\ r.pays # "" /\ SaveCountryOnMap(r))
              => /\ Cardinality({i \in 1..Len(countries') : countries'[i].id = r.id}) = 1
                 /\ \A i \in 1..Len(countries') :
                       countries'[i].id = r.id => countries'[i] = r
                 /\ IF \E i \in 1..Len(countries) : countries[i].id = r.id
                    THEN /\ Len(countries') = Len(countries)
                         /\ \A i \in 1..Len(countries) :
                               countries'[i] = IF countries[i].id = r.id THEN r
                                               ELSE countries[i]
                    ELSE /\ Len(countries') = Len(countries) + 1
                         /\ countries'[Len(countries) + 1] = r
                         /\ \A i \in 1..Len(countries) : countries'[i] = countries[i]
      ]_vars

\* The second of three records was replaced in place through the form.
C12_Witness ==
    /\ edits = 1
    /\ countries = << Rec("SEN", "Senegal", "MANQUE_INFO"),
                      Rec("MLI", "Mali", "CANEVA_LOCAL"),
                      Rec("MUS", "Mauritius", "ACTIF") >>

\* C14: for every reachable collection and every id, removing the id gives a
\* collection without that id in which every other record is kept, in the
\* order it had; it gives the collection itself when no record has the id; and
\* removing the id once more changes nothing.
C14_RemoveIdempotentTotal ==
    \A id \in {"SEN", "MLI", "MUS", "GHA"} :
        LET once == Remove(countries, id)
            kept == {i \in 1..Len(countries) : countries[i].id # id}
        IN  /\ \A i \in 1..Len(once) : once[i].id # id
            /\ Len(once) = Cardinality(kept)
            /\ \A i \in kept : once[Cardinality({j \in kept : j <= i})] = countries[i]
            /\ kept = 1..Len(countries) => once = countries
            /\ Remove(once, id) = once

\* The second of three records was selected and deleted.
C14_Witness ==
    /\ edits = 1
    /\ selectedCountry = Null
    /\ countries = << Rec("SEN", "Senegal", "MANQUE_INFO"),
                      Rec("MUS", "Mauritius", "ACTIF") >>

\* C17: for every reachable collection the statistics table has one row for
\* each of COMPLET, SANS_EPOQUE, MANQUE_INFO and CANEVA_LOCAL and none for
\* ACTIF; the count of a row is the number of records with its status; when
\* there is a record, its percentage has one decimal and is the value with one
\* decimal nearest to count / total * 100, the total counting the ACTIF records
\* too; when there is no record every count is 0 and every percentage is 0.
C17_StatisticsSummary ==
    LET stats == Statistics(countries)
        total == Len(countries)
        Tenths(p) == 10 * p[1] + p[2]
        Dist(a, b) == IF a >= b THEN a - b ELSE b - a
    IN  /\ Len(stats) = 4
        /\ {stats[k].status : k \in 1..Len(stats)} = Statuses \ {"ACTIF"}
        /\ \A k \in 1..Len(stats) :
              /\ stats[k].count =
                    Cardinality({i \in 1..total : countries[i].status = stats[k].status})
              /\ IF total = 0
                 THEN stats[k].count = 0 /\ stats[k].percentage = <<0>>
                 ELSE /\ Len(stats[k].percentage) = 2
                      /\ stats[k].percentage[2] \in 0..9
                      /\ 2 * Dist(Tenths(stats[k].percentage) * total,
                                  1000 * stats[k].count) <= total

\* Two of three records are COMPLET and the third is ACTIF: the row of COMPLET
\* shows 2 and 66.7.
C17_Witness ==
    /\ Len(countries) = 3
    /\ \E i \in 1..Len(countries) : countries[i].status = "ACTIF"
    /\ Statistics(countries)[1] =
          [status |-> "COMPLET", count |-> 2, percentage |-> <<66, 7>>]

\* C18: when the response of a topology fetch is handled, the retained
\* features are exactly the features of the topology whose identifier, mapped
\* through the override table, is the id of a record of the allow-list (the
\* records of the render that started the fetch): one retained feature for
\* each such feature, in the topology's order, with the mapped identifier and
\* with the name and the geometry it was served with.
C18_RetainedFeatures ==
    [][ \A i \in 1..Len(topoFetches) :
           TopologyLoaded(i)
              => LET allow == {topoFetches[i][k].id : k \in 1..Len(topoFetches[i])}
                     Canon(id) == IF id \in DOMAIN idMap THEN idMap[id] ELSE id
                     kept == {k \in 1..Len(topology) : Canon(topology[k].id) \in allow}
                 IN  /\ geoData' # Null
                     /\ Len(Val(geoData')) = Cardinality(kept)
                     /\ \A k \in kept :
                           Val(geoData')[Cardinality({j \in kept : j <= k})] =
                              Feature(Canon(topology[k].id), topology[k].name,
                                      topology[k].geometry)
      ]_vars

\* The topology {SEN, FRA, MLI} was filtered with the records SEN, MLI, MUS:
\* exactly the two features SEN and MLI are retained.
C18_Witness ==
    /\ topology = << Feature("SEN", "Senegal", "g1"), Feature("FRA", "France", "g2"),
                     Feature("MLI", "Mali", "g3") >>
    /\ geoData = Some(<< Feature("SEN", "Senegal", "g1"), Feature("MLI", "Mali", "g3") >>)
    /\ Len(countries) = 3

\* C19: once a response has been filtered, the identifier the filter computed
\* for each feature of the topology is the entry of the override table when the
\* served identifier is a key of the table and the served identifier itself
\* otherwise; and a polygon whose identifier is the id of no record has the
\* fill of "no record" and, as its text, the name the topology gives it.
C19_NormalizeTotal ==
    /\ geoData # Null
          => \A k \in 1..Len(topology) :
                Normalize(topology[k].id) =
                   IF topology[k].id \in DOMAIN idMap THEN idMap[topology[k].id]
                   ELSE topology[k].id
    /\ \A k \in 1..Len(svg.polygons) :
          Find(countries, svg.polygons[k].id) = Null
             => /\ svg.polygons[k].fill = "#f1f5f9"
                /\ svg.polygons[k].text = svg.polygons[k].title

\* C20: once no topology fetch is in flight and a non-zero size has been
\* observed, the <svg> holds exactly one marker for each island of the manual
\* list, in the list's order, whatever the topology served and whether or not
\* it could be fetched, and the fill of each marker is the one of the status
\* of the record with the island's id.
C20_ManualMarkersAlways ==
    (topoFetches = << >> /\ dimensions.width # 0 /\ dimensions.height # 0)
        => /\ Len(svg.markers) = Len(manualIslands)
           /\ \A k \in 1..Len(manualIslands) :
                 /\ svg.markers[k].id = manualIslands[k].id
                 /\ svg.markers[k].fill = Fill(countries, manualIslands[k].id)

\* C21: when a topology fetch fails, and when a response with an empty feature
\* list is handled, the <svg> holds no polygon afterwards; this is so also
\* when an earlier fetch had filled the map and the fetch that fails was
\* started by a change of the records.
C21_FetchFailureEmptyMap ==
    [][ /\ \A i \in 1..Len(topoFetches) :
              TopologyFailed(i) => svg'.polygons = << >>
        /\ \A i \in 1..Len(topoFetches) :
              (TopologyLoaded(i) /\ topology = << >>) => svg'.polygons = << >>
      ]_vars

\* C22: while the drawing area has no width or no height (neither the size
\* the observer reported nor the size of the <svg> element gives one), the
\* <svg> holds no polygon, no text and no marker; and once the observer has
\* reported a size with a width and a height and a topology response has been
\* handled, the <svg> holds one polygon with its text for each retained
\* feature and one marker for each island.
C22_ZeroViewportNoGeometry ==
    /\ ( \/ (dimensions.width = 0 /\ clientSize.width = 0)
         \/ (dimensions.height = 0 /\ clientSize.height = 0) )
           => svg = EmptySvg
    /\ (dimensions.width # 0 /\ dimensions.height # 0 /\ geoData # Null)
           => /\ Len(svg.polygons) = Len(Val(geoData))
              /\ Len(svg.markers) = Len(manualIslands)

\* A topology with retained features is loaded and the observer has reported
\* a width without a height: the render effect has emptied the <svg>.
C22_Witness ==
    /\ geoData # Null /\ Len(Val(geoData)) > 0
    /\ dimensions = Size(800, 0)
    /\ svg = EmptySvg

\* C23 as stated: at most one element of the <svg>, polygon or island marker,
\* carries the selected styling.
C23_AtMostOneSelected ==
    Cardinality({k \in 1..Len(svg.polygons) : svg.polygons[k].selected})
      + Cardinality({k \in 1..Len(svg.markers) : svg.markers[k].selected}) <= 1

\* C23, amended: every element of the <svg> that carries the selected styling
\* has the id of the selected record, so that at most one id is shown as
\* selected; a polygon and an island marker with that id carry it together.
C23_SelectedStylingOneId ==
    /\ \A k \in 1..Len(svg.polygons) :
          svg.polygons[k].selected
             => selectedCountry # Null /\ svg.polygons[k].id = Val(selectedCountry).id
    /\ \A k \in 1..Len(svg.markers) :
          svg.markers[k].selected
             => selectedCountry # Null /\ svg.markers[k].id = Val(selectedCountry).id

\* The feature served as MU was retained as MUS and the record MUS is
\* selected: the polygon MUS and the island marker MUS are both styled.
C23_Witness ==
    /\ selectedCountry # Null /\ Val(selectedCountry).id = "MUS"
    /\ \E k \in 1..Len(svg.polygons) : svg.polygons[k].id = "MUS" /\ svg.polygons[k].selected
    /\ \E k \in 1..Len(svg.markers) : svg.markers[k].id = "MUS" /\ svg.markers[k].selected

\* The selection a click on an element with this id must produce: the record
\* of countries with that id, or null when there is none.
ClickSelects(id) ==
    IF \E i \in 1..Len(countries) : countries[i].id = id
    THEN /\ selectedCountry' # Null
         /\ Val(selectedCountry').id = id
         /\ \E i \in 1..Len(countries) : countries[i] = Val(selectedCountry')
    ELSE selectedCountry' = Null

\* C24: a click on a polygon or on an island marker whose id matches no record
\* sets the selection to null, and a click on one whose id matches a record
\* selects exactly that record; the click is defined for every element drawn.
C24_ClickSelectsRecordOrNull ==
    [][ /\ \A k \in 1..Len(svg.polygons) :
              ClickFeature(k) => ClickSelects(svg.polygons[k].id)
        /\ \A k \in 1..Len(svg.markers) :
              ClickMarker(k) => ClickSelects(svg.markers[k].id)
      ]_vars

\* The island marker MUS was clicked while the record MUS exists and markers
\* without a record (SYC, COM, CPV, STP) are drawn beside it.
C24_Witness ==
    /\ Len(svg.markers) = Len(manualIslands)
    /\ selectedCountry # Null /\ Val(selectedCountry).id = "MUS"
    /\ \E k \in 1..Len(svg.markers) : svg.markers[k].id = "MUS" /\ svg.markers[k].selected
    /\ \E k \in 1..Len(svg.markers) : Find(countries, svg.markers[k].id) = Null
    /\ edits = 0

\* C25: once every topology fetch started by the successive record changes
\* has been answered, in whatever order, the retained feature set is the
\* topology filtered by the ids of the current records.
C25_SupersededFetchHarmless ==
    (topoFetches = << >> /\ ~topoFailed /\ geoData # Null)
        => Val(geoData) = RetainedFeatures(topology, Ids(countries))

\* C26: a successful POST /api/data stores the countries and headers of its
\* body so that GET /api/data returns them; on a fresh data file GET returns
\* countries = null and headers = null; and starting the server on a disk
\* that already holds a data file leaves the file as it is.
C26_RemoteRoundTrip ==
    [][ /\ \A i \in 1..Len(saves) :
              ServerPost(i) => GetData(dataFile') = [countries |-> Some(saves[i].c),
                                                     headers   |-> Some(saves[i].h)]
        /\ ServerSeedPost => GetData(dataFile') = [countries |-> Some(AFRICA_DATA),
                                                   headers   |-> Some(DefaultHeaders)]
        /\ (ServerGet /\ dataFile = StartServer(Null)) => fd'.data = NoData
        /\ \A disk \in DiskInit \ {Null} : StartServer(disk) = Val(disk)
      ]_vars

\* A save of headers typed by the operator was stored by the server, and a
\* GET would now return that save's countries and headers.
C26_Witness ==
    \E i \in 1..Len(saves) :
        /\ saves[i].resp = "ok"
        /\ saves[i].h \in HeaderInputs
        /\ GetData(dataFile) = [countries |-> Some(saves[i].c), headers |-> Some(saves[i].h)]

\* C27: whatever the outcome of the remote read (data, no data, a non-2xx
\* status, a rejection, a failed seeding write), the loading phase eventually
\* ends for good, which is what enables the mirror effects.
C27_HydrationTerminates == <>[](~isLoading)

\* Loading ended after the seeding write was rejected.
C27_Witness == ~isLoading /\ fd.seed = "rejected" /\ changed = {}

\* C28: when startup ends after a GET answered with status 200 and, if one
\* was sent, a seeding POST answered with status 200, with nothing edited or
\* saved meanwhile, the countries and headers in memory are those the remote
\* store holds; the remote may have held null countries with headers set.
C28_MemoryEqualsRemoteAfterStartup ==
    ( /\ HydrationCommitted
      /\ fd.resp = "ok" /\ fd.seed \in {"none", "ok"}
      /\ loadEdits = NoLoadEdits /\ saves = << >> )
        => GetData(dataFile) = [countries |-> Some(countries), headers |-> Some(headers)]

\* C29: whenever a record is selected, it is the record of the in-memory
\* countries that has its id, after any sequence of selections, submissions,
\* deletions and the startup hydration.
C29_SelectionIsCurrentRecord ==
    selectedCountry # Null
        => /\ \E i \in 1..Len(countries) : countries[i].id = Val(selectedCountry).id
           /\ \A i \in 1..Len(countries) :
                 countries[i].id = Val(selectedCountry).id => countries[i] = Val(selectedCountry)

\* C30: no step taken while the startup hydration is still loading writes
\* either slot of the local cache, so that the catch branch of fetchData
\* reads the slots as the previous session left them.
C30_CacheUntouchedWhileLoading ==
    [][ isLoading => (lsData' = lsData /\ lsHeaders' = lsHeaders) ]_vars

====
